---- MODULE Spec2Model ----
(***************************************************************************)
(* Model of the backtest engine of trading_bot_golang:                     *)
(*   RunBacktest, calculateSharpeRatio, calculateStandardDeviation,        *)
(*   calculateMean      (src/connector/transaq.go, package backtest)       *)
(*   SimpleTrendStrategy.GetSignals, calculateSMA                          *)
(*                      (src/strategy/simple_trend_strategy.go)            *)
(*                                                                         *)
(* Money is float64 in the source.  Amounts are integers here: every      *)
(* amount that occurs is an integer float64 holds exactly, and on these    *)
(* amounts the float64 lot computation of line 368 equals the exact one.   *)
(* The result of a float division is kept as a fraction [num, den];        *)
(* den = 0 stands for the IEEE-754 results of a division by zero:          *)
(* NaN (0/0), +Inf and -Inf.                                               *)
(*                                                                         *)
(* The strategy is an interface: besides SimpleTrendStrategy the model has *)
(* an arbitrary implementation ("mock") that may fail or return any list   *)
(* of at most MaxSignals signals.  The elements of that list are drawn     *)
(* when the range loop reaches them (any signal may stand at any index).   *)
(* A signal Price of 0 is outside the model's sample of inputs.            *)
(***************************************************************************)
EXTENDS Integers, Sequences, FiniteSets, TLC

\* ------------------------------------------------------------------ bounds
\* rows of the dataframe after the warm-up rows
MaxReplay == 2
\* length of the list one GetSignals call of the arbitrary strategy returns
MaxSignals == 2
\* fills of one run of the arbitrary strategy: once totalTrades reaches it,
\* the strategy only returns signals that cannot fill
MaxTrades == 4

\* capacity of the channel t.messages in the model (100 in the program)
ChanCap == 2
\* lines the server writes to the connection
MaxLines == 4
\* calls of GetMessageWithTimeout
MaxGets == 3

\* length of the list of URLs FetchMarketData is called with
MaxUrls == 3

\* size of the ring of one symbol in the model (100 in the program)
maxHistorySize == 2
\* calls of UpdateQuotes
MaxUpdates == 4

\* iterations of the robot's loop of main
MaxIterations == 2
\* positions of the portfolio the robot's loop fetches
MaxLivePositions == 2

\* positions in the portfolio a reply of the server describes
MaxReplyPositions == 2

\* ------------------------------------------------------- program constants
StrategyPeriod == 10
RiskDivisor == 100
RiskFreeDen == 50
Percent == 100

MaxBars == StrategyPeriod + MaxReplay

\* ------------------------------------------------------------------ inputs
InitialCapitals == {0, 200}
Symbols == {"A", "B"}
Sides == {"buy", "sell", "hold"}
Prices == {-300, 1, 2}
ClosePrices == {1, 2}
FlatClose == CHOOSE c \in ClosePrices : \A d \in ClosePrices : c <= d
TrendPeriods == {3, 12}

Strategies ==
  {[kind |-> "mock", Period |-> 0]} \cup
  {[kind |-> "trend", Period |-> p] : p \in TrendPeriods}

\* strategy.TradingSignal
TradingSignal == [Symbol : Symbols \cup {""}, Side : Sides, Price : Prices \cup ClosePrices]

\* ------------------------------------------------------------------- state
VARIABLES
  strategy,            \* the Strategy passed to RunBacktest
  initialCapital,      \* parameter initialCapital
  pc,                  \* position in RunBacktest
  historyDf,           \* rows of historyDf: the close price (column "1") of each
  timeCol,             \* column "5" of historyDf: candle.T of each row
  i,                   \* index of the replay loop (0-based, as in the source)
  nsignals,            \* len(signals) of the current bar
  k,                   \* index of the range loop over signals
  rangeSignal,         \* the range variable: the signal of the latest turn
  call,                \* the latest call of strategy.GetSignals and its error
  Available,           \* portfolio.Balances["RUB"].Available
  Positions,           \* portfolio.Positions
  totalTrades,
  profitableTrades,
  unprofitableTrades,
  totalProfit,
  tradeLog,
  maxEquity,
  maxDrawdown,
  result,              \* what RunBacktest returns
  availableBeforeFill, \* history: Available as it was before the latest fill
  reply,               \* GetPortfolioInfo: what client.Do and io.ReadAll gave
  portfolioResult,     \* GetPortfolioInfo: what it returned
  conn,                \* TransaqConnector.conn: "nil", "open" or "closed"
  wire,                \* lines the server has written that conn has not read yet
  messages,            \* the buffer of the channel t.messages
  messagesClosed,      \* close(t.messages) has run
  stopClosed,          \* close(t.stop) has run
  readerPc,            \* the goroutine of StartReading: "off", "scan", "send", "done"
  inHand,              \* the line the reader is about to send
  callerPc,            \* the goroutine that calls the connector
  lastGet,             \* the latest return of GetMessageWithTimeout
  readLog,             \* history: the lines scanner.Text() has returned
  delivered,           \* history: the lines received from t.messages
  fetchPc,             \* FetchMarketData: "idle", "collect" or "returned"
  urls,                \* len(urls)
  requestPc,           \* the asyncApiRequest goroutines: "run", "sent", "gone"
  ch,                  \* the buffer of the channel ch
  results,             \* the slice results
  fetchResult,         \* what FetchMarketData returned
  CurrentQuotes,       \* data.CurrentQuotes[tradingSession][symbol]
  QuotesHistory,       \* data.QuotesHistory[symbol]: the ring and its pointer
  quotesMutex,         \* data.quotesMutex: writer and readers holding it
  updaterPc,           \* the goroutine that calls UpdateQuotes
  newQuote,            \* the argument of the UpdateQuotes call under way
  updates,             \* number of UpdateQuotes calls made
  getterPc,            \* the goroutine that calls GetQuoteHistory
  getSymbol,           \* the argument of the GetQuoteHistory call under way
  quotesRead,          \* what GetQuoteHistory returned last
  accepted,            \* history: per symbol, the quotes stored so far
  livePc,              \* the robot's loop of main
  iteration,           \* iterations of that loop started
  livePortfolio,       \* portfolio fetched in the iteration
  liveSignals,         \* len(signals) of the iteration
  liveK,               \* index of the range loop over signals
  liveSignal,          \* the range variable: the signal of the latest turn
  orders               \* the requests CreateOrder was called with in the iteration

ledger == <<Available, Positions, totalTrades, profitableTrades,
            unprofitableTrades, totalProfit, tradeLog>>
trackers == <<maxEquity, maxDrawdown>>
params == <<strategy, initialCapital>>
frame == <<historyDf, timeCol>>
vars == <<strategy, initialCapital, pc, historyDf, timeCol, i, nsignals, k, rangeSignal, call,
          Available, Positions, totalTrades, profitableTrades,
          unprofitableTrades, totalProfit, tradeLog, maxEquity, maxDrawdown,
          result, availableBeforeFill, reply, portfolioResult,
          conn, wire, messages, messagesClosed, stopClosed, readerPc, inHand,
          callerPc, lastGet, readLog, delivered,
          fetchPc, urls, requestPc, ch, results, fetchResult,
          CurrentQuotes, QuotesHistory, quotesMutex, updaterPc, newQuote, updates,
          getterPc, getSymbol, quotesRead, accepted,
          livePc, iteration, livePortfolio, liveSignals, liveK, liveSignal, orders>>
connectorVars == <<conn, wire, messages, messagesClosed, stopClosed, readerPc, inHand,
                   callerPc, lastGet, readLog, delivered>>
fetchVars == <<fetchPc, urls, requestPc, ch, results, fetchResult>>
quoteVars == <<CurrentQuotes, QuotesHistory, quotesMutex, updaterPc, newQuote, updates,
               getterPc, getSymbol, quotesRead, accepted>>
liveVars == <<livePc, iteration, livePortfolio, liveSignals, liveK, liveSignal, orders>>
aside == <<connectorVars, fetchVars, quoteVars, liveVars>>
portfolioCall == <<reply, portfolioResult>>
backtest == <<strategy, initialCapital, pc, historyDf, timeCol, i, nsignals, k, rangeSignal,
              call, Available, Positions, totalTrades, profitableTrades,
              unprofitableTrades, totalProfit, tradeLog, maxEquity, maxDrawdown,
              result, availableBeforeFill>>

\* ------------------------------------------------------------ float64 model
\* the float64 result of n / d for integers n, d
FDiv(n, d) ==
  IF d > 0 THEN [num |-> n, den |-> d]
  ELSE IF d < 0 THEN [num |-> -n, den |-> -d]
  ELSE IF n > 0 THEN [num |-> 1, den |-> 0]
  ELSE IF n < 0 THEN [num |-> -1, den |-> 0]
  ELSE [num |-> 0, den |-> 0]

NaN == [num |-> 0, den |-> 0]
PosInf == [num |-> 1, den |-> 0]
NegInf == [num |-> -1, den |-> 0]
FZero == [num |-> 0, den |-> 1]
IsNaN(x) == x.den = 0 /\ x.num = 0
IsInf(x) == x.den = 0 /\ x.num # 0
IsFinite(x) == x.den > 0

\* x > y on float64: false as soon as one side is NaN
FGreater(x, y) ==
  IF IsNaN(x) \/ IsNaN(y) THEN FALSE
  ELSE IF x.den = 0 /\ y.den = 0 THEN x.num > y.num
  ELSE x.num * y.den > y.num * x.den

\* math.Floor(n / d) for integers n, d with d # 0
FloorDiv(n, d) ==
  IF d > 0 THEN n \div d ELSE (-n) \div (-d)

NoCall == [bar |-> -1, history |-> 0, err |-> "nil"]
NoSignal == [Symbol |-> "", Side |-> "", Price |-> 0]
NoReply == [kind |-> "none"]
NotCalled == [called |-> FALSE]
NilPortfolio == [nil |-> TRUE]
NoGet == [n |-> 0, message |-> "", err |-> "nil"]
NotFetched == [returned |-> FALSE]
Sessions == {"S1", "S2"}
NoQuote == [Symbol |-> "", TradingSession |-> "", Price |-> 0, Volume |-> 0]
NoRing == [made |-> FALSE]
NotRead == [returned |-> FALSE]
NoLivePortfolio == [Available |-> 0, Positions |-> <<>>]

\* ------------------------------------------------------------------- time
\* the zero time.Time (0001-01-01), as the date number yyyymmdd
ZeroTime == 10101

\* days of the month of a year
DaysIn(year, month) ==
  IF month \in {4, 6, 9, 11} THEN 30
  ELSE IF month # 2 THEN 31
  ELSE IF (year % 4 = 0 /\ year % 100 # 0) \/ year % 400 = 0 THEN 29
  ELSE 28

\* time.Parse("20060102", fmt.Sprintf("%d", t)) succeeds: t printed has
\* exactly eight digits, a month and a day of that month
IsDate(t) ==
  /\ t >= 10000000
  /\ t <= 99999999
  /\ (t \div 100) % 100 \in 1..12
  /\ t % 100 >= 1
  /\ t % 100 <= DaysIn(t \div 10000, (t \div 100) % 100)

\* line 345: the error of time.Parse is dropped, a failed parse leaves the
\* zero time; a parsed time is kept as its date number
ParseTime(t) == IF IsDate(t) THEN t ELSE ZeroTime

\* samples of candle.T: dates written yyyymmdd, and unix seconds
DateBase == 20240100
UnixBase == 1704067200
UnixDay == 86400

\* the columns "5" a dataframe of n rows may have: ascending dates, dates
\* that end with one date twice, ascending unix seconds
TimeColumns(n) ==
  { [j \in 1..n |-> DateBase + j],
    [j \in 1..n |-> DateBase + (IF j = n /\ n > 1 THEN n - 1 ELSE j)],
    [j \in 1..n |-> UnixBase + UnixDay * j] }

NoResult == [returned |-> FALSE]

\* ------------------------------------------------- SimpleTrendStrategy
RECURSIVE SumFrom(_, _, _)
\* closePrices[from] + ... + closePrices[to] (1-based)
SumFrom(closePrices, from, to) ==
  IF from > to THEN 0 ELSE closePrices[from] + SumFrom(closePrices, from + 1, to)

\* period * calculateSMA(df, period): the sum of the last period rows of df
calculateSMA(df, period) == SumFrom(df, Len(df) - period + 1, Len(df))

InsufficientHistory(history, period) == Len(history) < period

\* SimpleTrendStrategy.GetSignals: quotes.Symbol is never set by RunBacktest
SimpleTrendGetSignals(quotePrice, history, period) ==
  IF InsufficientHistory(history, period)
  THEN [err |-> "error", signals |-> <<>>]
  ELSE LET sma == calculateSMA(history, period) IN
       IF quotePrice * period > sma
       THEN [err |-> "nil",
             signals |-> <<[Symbol |-> "", Side |-> "buy", Price |-> quotePrice]>>]
       ELSE IF quotePrice * period < sma
       THEN [err |-> "nil",
             signals |-> <<[Symbol |-> "", Side |-> "sell", Price |-> quotePrice]>>]
       ELSE [err |-> "nil", signals |-> <<>>]

\* ------------------------------------------------------ RunBacktest, pieces
\* the history RunBacktest hands to GetSignals at bar i: &historyDf, all rows
HistoryArg(df, bar) == df

\* Price of the quote built from currentBar (column "1" of row i)
QuotePrice(df, bar) == df[bar + 1]

\* time of the current bar
currentBarTime(bar) == ParseTime(timeCol[bar + 1])

\* what GetSignals may return at bar i: [err, n] with n = len(signals)
GetSignalsOutcomes(s, df, bar) ==
  IF s.kind = "trend"
  THEN LET r == SimpleTrendGetSignals(QuotePrice(df, bar), HistoryArg(df, bar), s.Period)
       IN {[err |-> r.err, n |-> Len(r.signals)]}
  ELSE {[err |-> "error", n |-> 0]} \cup {[err |-> "nil", n |-> n] : n \in 0..MaxSignals}

\* a signal of a side the range loop ignores; its symbol and price are never
\* read
HoldSignal == [Symbol |-> "A", Side |-> "hold", Price |-> 1]

\* the signals that may stand at index idx of the list returned at bar i
SignalsAt(s, df, bar, idx, trades) ==
  IF s.kind = "trend"
  THEN {SimpleTrendGetSignals(QuotePrice(df, bar), HistoryArg(df, bar), s.Period).signals[idx + 1]}
  ELSE {sig \in [Symbol : Symbols, Side : Sides \ {"hold"}, Price : Prices] :
          trades < MaxTrades} \cup {HoldSignal}

\* a guard that lets every buy through
CanBuyAlways(signal, available) == signal.Side = "buy"

\* line 366: the guard of the buy branch
CanBuy(signal, available) == signal.Side = "buy" /\ available >= signal.Price

\* line 368: int(math.Floor((Available * 0.01) / signal.Price))
positionSizeLots(available, price) == FloorDiv(available, RiskDivisor * price)

\* a scan that takes the first position of the symbol whatever its quantity
FirstMatchAnyQuantity(positions, symbol, from) ==
  LET hits == {j \in from..Len(positions) : positions[j].Symbol = symbol}
  IN IF hits = {} THEN 0 ELSE CHOOSE j \in hits : \A h \in hits : j <= h

\* a scan that keeps the last position of the symbol instead of the first
FirstMatchLast(positions, symbol, from) ==
  LET hits == {j \in from..Len(positions) :
                 positions[j].Symbol = symbol /\ positions[j].Quantity > 0}
  IN IF hits = {} THEN 0 ELSE CHOOSE j \in hits : \A h \in hits : h <= j

\* lines 403-404: index of the first position of the symbol with Quantity > 0, or 0
RECURSIVE FirstMatch(_, _, _)
FirstMatch(positions, symbol, from) ==
  IF from > Len(positions) THEN 0
  ELSE IF positions[from].Symbol = symbol /\ positions[from].Quantity > 0 THEN from
  ELSE FirstMatch(positions, symbol, from + 1)

\* line 411: append(Positions[:i], Positions[i+1:]...)
RemoveAt(positions, idx) ==
  SubSeq(positions, 1, idx - 1) \o SubSeq(positions, idx + 1, Len(positions))

\* the price difference of one lot, whatever the quantity
ProfitPerLot(signal, position) == signal.Price - position.AveragePrice

\* line 407
Profit(signal, position) == (signal.Price - position.AveragePrice) * position.Quantity

\* a credit at the entry price instead of the signal's price
SellCreditAtEntry(signal, position) == position.AveragePrice * position.Quantity

\* line 409: the credit of a sell
SellCredit(signal, position) == signal.Price * position.Quantity

\* a debit of the price of one lot, whatever the lots bought
BuyDebitOneLot(signal, lots) == signal.Price

\* line 386: the debit of a buy
BuyDebit(signal, lots) == signal.Price * lots

\* a tracker that follows the balance instead of its peak
NewMaxEquityLatest(maxEq, currentEquity) == currentEquity

\* lines 443-445
NewMaxEquity(maxEq, currentEquity) ==
  IF currentEquity > maxEq THEN currentEquity ELSE maxEq

\* a drawdown that is 0 when maxEquity is 0
DrawdownGuarded(maxEq, currentEquity) ==
  IF maxEq = 0 THEN FZero ELSE FDiv((maxEq - currentEquity) * Percent, maxEq)

\* line 446: (maxEquity - currentEquity) / maxEquity * 100
Drawdown(maxEq, currentEquity) == FDiv((maxEq - currentEquity) * Percent, maxEq)

\* a tracker that keeps the latest drawdown instead of the largest
NewMaxDrawdownLatest(maxDd, drawdown) == drawdown

\* lines 447-449
NewMaxDrawdown(maxDd, drawdown) ==
  IF FGreater(drawdown, maxDd) THEN drawdown ELSE maxDd

\* lines 441-449, on the balance left by the signal
ObserveEquity(currentEquity) ==
  /\ maxEquity' = NewMaxEquity(maxEquity, currentEquity)
  /\ maxDrawdown' = NewMaxDrawdown(maxDrawdown,
                       Drawdown(NewMaxEquity(maxEquity, currentEquity), currentEquity))

\* a range loop that, after the last signal, stays on the bar
NextSignalSameBar ==
  IF k + 1 < nsignals
  THEN /\ k' = k + 1
       /\ UNCHANGED <<pc, i, nsignals>>
  ELSE /\ k' = 0
       /\ nsignals' = 0
       /\ pc' = "loop"
       /\ i' = i

\* the range loop over signals moves on; after the last signal, the next bar
NextSignal ==
  IF k + 1 < nsignals
  THEN /\ k' = k + 1
       /\ UNCHANGED <<pc, i, nsignals>>
  ELSE /\ k' = 0
       /\ nsignals' = 0
       /\ pc' = "loop"
       /\ i' = i + 1

\* a continue that does not advance the loop index
SkipBarRetry ==
  /\ i' = i
  /\ UNCHANGED <<pc, nsignals, k>>

\* continue of the replay loop (lines 343 and 354)
SkipBar ==
  /\ i' = i + 1
  /\ UNCHANGED <<pc, nsignals, k>>

\* ------------------------------------------------------------------ Init
Init ==
  /\ strategy \in Strategies
  /\ initialCapital \in InitialCapitals
  /\ pc = "start"
  /\ historyDf = <<>>
  /\ timeCol = <<>>
  /\ rangeSignal = NoSignal
  /\ i = 0
  /\ nsignals = 0
  /\ k = 0
  /\ call = NoCall
  /\ Available = 0
  /\ Positions = <<>>
  /\ totalTrades = 0
  /\ profitableTrades = 0
  /\ unprofitableTrades = 0
  /\ totalProfit = 0
  /\ tradeLog = <<>>
  /\ maxEquity = 0
  /\ maxDrawdown = FZero
  /\ result = NoResult
  /\ availableBeforeFill = 0
  /\ reply = NoReply
  /\ portfolioResult = NotCalled
  /\ conn = "nil"
  /\ wire = <<>>
  /\ messages = <<>>
  /\ messagesClosed = FALSE
  /\ stopClosed = FALSE
  /\ readerPc = "off"
  /\ inHand = ""
  /\ callerPc = "new"
  /\ lastGet = NoGet
  /\ readLog = <<>>
  /\ delivered = <<>>
  /\ fetchPc = "idle"
  /\ urls = 0
  /\ requestPc = <<>>
  /\ ch = <<>>
  /\ results = <<>>
  /\ fetchResult = NotFetched
  /\ CurrentQuotes = [session \in Sessions |-> [symbol \in Symbols |-> NoQuote]]
  /\ QuotesHistory = [symbol \in Symbols |-> NoRing]
  /\ quotesMutex = [writer |-> FALSE, readers |-> 0]
  /\ updaterPc = "idle"
  /\ newQuote = NoQuote
  /\ updates = 0
  /\ getterPc = "idle"
  /\ getSymbol = ""
  /\ quotesRead = NotRead
  /\ accepted = [symbol \in Symbols |-> <<>>]
  /\ livePc = "idle"
  /\ iteration = 0
  /\ livePortfolio = NoLivePortfolio
  /\ liveSignals = 0
  /\ liveK = 0
  /\ liveSignal = NoSignal
  /\ orders = <<>>

\* the dataframes LoadHistoricalData may deliver
DataFrames(s) ==
  IF s.kind = "trend"
  THEN UNION {[1..n -> ClosePrices] : n \in 0..MaxBars}
  ELSE {[j \in 1..n |-> FlatClose] : n \in 0..MaxBars}

\* ------------------------------------------------- result aggregation
RECURSIVE SumSeq(_)
SumSeq(data) == IF data = <<>> THEN 0 ELSE Head(data) + SumSeq(Tail(data))

\* lines 477-480: the Profit of every record
Returns(trades) == [j \in 1..Len(trades) |-> trades[j].Profit]

\* calculateMean
calculateMean(data) ==
  IF Len(data) = 0 THEN FZero ELSE FDiv(SumSeq(data), Len(data))

\* n*n times the sum of the squared deviations from the mean (lines 493-496)
SumSquaredDeviations(data) ==
  SumSeq([j \in 1..Len(data) |->
            (Len(data) * data[j] - SumSeq(data)) * (Len(data) * data[j] - SumSeq(data))])

\* the variance of calculateStandardDeviation (line 497): the sum of the
\* squared deviations over len(data)-1
Variance(data) ==
  FDiv(SumSquaredDeviations(data), Len(data) * Len(data) * (Len(data) - 1))

\* calculateStandardDeviation, kept as its square: math.Sqrt keeps NaN, 0,
\* +Inf and the order of the positive numbers
calculateStandardDeviation(data) ==
  IF Len(data) = 0 THEN FZero ELSE Variance(data)

\* meanReturn - riskFreeRate, riskFreeRate = 0.02 = 1/RiskFreeDen
Excess(data) ==
  IF Len(data) = 0 THEN FDiv(-1, RiskFreeDen)
  ELSE FDiv(RiskFreeDen * SumSeq(data) - Len(data), RiskFreeDen * Len(data))

\* calculateSharpeRatio: the class of the float64 it returns, with the
\* excess return and the squared deviation it is the quotient of
calculateSharpeRatio(trades) ==
  IF Len(trades) = 0
  THEN [class |-> "zero", excess |-> FZero, stdDevSq |-> FZero]
  ELSE LET stdDevSq == calculateStandardDeviation(Returns(trades))
           excess == Excess(Returns(trades))
       IN [class |-> IF IsNaN(stdDevSq) THEN "NaN"
                     ELSE IF stdDevSq.num = 0 /\ excess.num > 0 THEN "+Inf"
                     ELSE IF stdDevSq.num = 0 /\ excess.num < 0 THEN "-Inf"
                     ELSE IF stdDevSq.num = 0 THEN "NaN"
                     ELSE IF excess.num = 0 THEN "zero"
                     ELSE "finite",
           excess |-> excess,
           stdDevSq |-> stdDevSq]

\* line 454: totalProfit / float64(totalTrades)
AverageProfit(profit, trades) == FDiv(profit, trades)

\* ---------------------------------------------------------------- actions
\* lines 281-333: load the history, build the portfolio and the counters
LoadHistory ==
  /\ pc = "start"
  /\ \/ /\ pc' = "done"
        /\ result' = [returned |-> TRUE, err |-> "load", report |-> FALSE]
        /\ UNCHANGED <<frame, i, Available, maxEquity>>
     \/ /\ historyDf' \in DataFrames(strategy)
        /\ timeCol' \in TimeColumns(Len(historyDf'))
        /\ Available' = initialCapital
        /\ maxEquity' = initialCapital
        /\ i' = StrategyPeriod
        /\ pc' = "loop"
        /\ UNCHANGED result
  /\ UNCHANGED <<params, portfolioCall, aside, nsignals, k, rangeSignal, call, Positions, totalTrades, profitableTrades,
                 unprofitableTrades, totalProfit, tradeLog, maxDrawdown,
                 availableBeforeFill>>

\* lines 341-344: the timestamp of the bar cannot be read: continue
TimestampUnreadable ==
  /\ pc = "loop"
  /\ i < Len(historyDf)
  /\ SkipBar
  /\ rangeSignal' = NoSignal
  /\ UNCHANGED <<params, portfolioCall, aside, frame, call, ledger, trackers, result, availableBeforeFill>>

\* a failing GetSignals that ends the run with the error
StrategyErrorAbort ==
  /\ pc = "loop"
  /\ i < Len(historyDf)
  /\ \E r \in GetSignalsOutcomes(strategy, historyDf, i) :
       /\ r.err # "nil"
       /\ call' = [bar |-> i, history |-> Len(HistoryArg(historyDf, i)), err |-> r.err]
  /\ pc' = "done"
  /\ result' = [returned |-> TRUE, err |-> "strategy", report |-> FALSE]
  /\ rangeSignal' = NoSignal
  /\ UNCHANGED <<params, portfolioCall, aside, frame, i, nsignals, k, ledger, trackers, availableBeforeFill>>

\* lines 352-355: GetSignals fails: continue
StrategyError ==
  /\ pc = "loop"
  /\ i < Len(historyDf)
  /\ \E r \in GetSignalsOutcomes(strategy, historyDf, i) :
       /\ r.err # "nil"
       /\ call' = [bar |-> i, history |-> Len(HistoryArg(historyDf, i)), err |-> r.err]
  /\ SkipBar
  /\ rangeSignal' = NoSignal
  /\ UNCHANGED <<params, portfolioCall, aside, frame, ledger, trackers, result, availableBeforeFill>>

\* lines 347-364: GetSignals returns a list; the range loop starts
GetSignals ==
  /\ pc = "loop"
  /\ i < Len(historyDf)
  /\ \E r \in GetSignalsOutcomes(strategy, historyDf, i) :
       /\ r.err = "nil"
       /\ call' = [bar |-> i, history |-> Len(HistoryArg(historyDf, i)), err |-> "nil"]
       /\ IF r.n = 0
          THEN /\ i' = i + 1
               /\ UNCHANGED <<pc, nsignals, k>>
          ELSE /\ pc' = "signals"
               /\ nsignals' = r.n
               /\ k' = 0
               /\ UNCHANGED i
  /\ rangeSignal' = NoSignal
  /\ UNCHANGED <<params, portfolioCall, aside, frame, ledger, trackers, result, availableBeforeFill>>

\* a sell without a loss counted as profitable
IsProfitableOrFlat(profit) == profit >= 0

\* line 414: if profit > 0
IsProfitable(profit) == profit > 0

\* a total that counts the gains only
NewTotalProfitGains(total, profit) == IF profit > 0 THEN total + profit ELSE total

\* line 413: totalProfit += profit
NewTotalProfit(total, profit) == total + profit

\* lines 366-399 and 441-449: an accepted buy
BuyFill(signal) ==
  /\ CanBuy(signal, Available)
  /\ positionSizeLots(Available, signal.Price) # 0
  /\ totalTrades' = totalTrades + 1
  /\ Positions' = Append(Positions,
                    [Symbol |-> signal.Symbol,
                     Quantity |-> positionSizeLots(Available, signal.Price),
                     AveragePrice |-> signal.Price,
                     OpenDate |-> currentBarTime(i)])
  /\ Available' = Available - BuyDebit(signal, positionSizeLots(Available, signal.Price))
  /\ tradeLog' = Append(tradeLog,
                    [Symbol |-> signal.Symbol, Side |-> "buy",
                     OpenPrice |-> signal.Price, OpenTime |-> currentBarTime(i),
                     ClosePrice |-> 0, CloseTime |-> ZeroTime, Profit |-> 0])
  /\ ObserveEquity(Available')
  /\ availableBeforeFill' = Available
  /\ UNCHANGED <<profitableTrades, unprofitableTrades, totalProfit>>

\* lines 369-374: not one lot: continue, without the update of lines 441-449
BuyReject(signal) ==
  /\ CanBuy(signal, Available)
  /\ positionSizeLots(Available, signal.Price) = 0
  /\ UNCHANGED <<ledger, trackers, availableBeforeFill>>

\* lines 401-438 and 441-449: a sell that finds a position
SellFill(signal) ==
  /\ ~CanBuy(signal, Available)
  /\ signal.Side = "sell"
  /\ FirstMatch(Positions, signal.Symbol, 1) # 0
  /\ LET idx == FirstMatch(Positions, signal.Symbol, 1)
         position == Positions[idx]
         profit == Profit(signal, position)
     IN /\ totalTrades' = totalTrades + 1
        /\ Available' = Available + SellCredit(signal, position)
        /\ Positions' = RemoveAt(Positions, idx)
        /\ totalProfit' = NewTotalProfit(totalProfit, profit)
        /\ IF IsProfitable(profit)
           THEN profitableTrades' = profitableTrades + 1 /\ UNCHANGED unprofitableTrades
           ELSE unprofitableTrades' = unprofitableTrades + 1 /\ UNCHANGED profitableTrades
        /\ tradeLog' = Append(tradeLog,
                          [Symbol |-> signal.Symbol, Side |-> "sell",
                           OpenPrice |-> position.AveragePrice,
                           OpenTime |-> position.OpenDate,
                           ClosePrice |-> signal.Price,
                           CloseTime |-> currentBarTime(i),
                           Profit |-> profit])
  /\ ObserveEquity(Available')
  /\ availableBeforeFill' = Available

\* neither branch acts: a buy the balance cannot pay, a sell without a
\* position, another side; lines 441-449 still run
NoFill(signal) ==
  /\ ~CanBuy(signal, Available)
  /\ signal.Side = "sell" => FirstMatch(Positions, signal.Symbol, 1) = 0
  /\ UNCHANGED <<ledger, availableBeforeFill>>
  /\ ObserveEquity(Available)

\* lines 364-450: one turn of the range loop over signals
ProcessSignal ==
  /\ pc = "signals"
  /\ \E sig \in SignalsAt(strategy, historyDf, i, k, totalTrades) :
       /\ rangeSignal' = sig
       /\ \/ BuyFill(sig)
          \/ BuyReject(sig)
          \/ SellFill(sig)
          \/ NoFill(sig)
  /\ NextSignal
  /\ UNCHANGED <<params, portfolioCall, aside, frame, call, result>>

\* lines 453-470: the report
Finish ==
  /\ pc = "loop"
  /\ i >= Len(historyDf)
  /\ pc' = "done"
  /\ result' = [returned |-> TRUE, err |-> "nil", report |-> TRUE,
                TotalTrades |-> totalTrades,
                ProfitableTrades |-> profitableTrades,
                UnprofitableTrades |-> unprofitableTrades,
                TotalProfit |-> totalProfit,
                AverageProfit |-> AverageProfit(totalProfit, totalTrades),
                MaxDrawdown |-> maxDrawdown,
                SharpeRatio |-> calculateSharpeRatio(tradeLog),
                TradingLog |-> tradeLog]
  /\ rangeSignal' = NoSignal
  /\ UNCHANGED <<params, portfolioCall, aside, frame, i, nsignals, k, call, ledger, trackers,
                 availableBeforeFill>>

Next ==
  \/ LoadHistory
  \/ TimestampUnreadable
  \/ StrategyError
  \/ GetSignals
  \/ ProcessSignal
  \/ Finish

Spec == Init /\ [][Next]_vars

\* RunBacktest runs on one goroutine and none of its steps waits: a step that
\* can be taken is taken
LiveSpec == Spec /\ WF_vars(Next)

\* ------------------------------------------------- order.GetPortfolioInfo
AccessTokens == {"your_access_token", "token"}
Statuses == {200, 401}
AccountIDs == {"", "A1"}
ReplyPositions ==
  UNION {[1..n -> [Symbol : {"", "A"}, Quantity : {0, 5}]] : n \in 0..MaxReplyPositions}

\* the JSON objects a body may hold: each of the keys "account", "balances"
\* and "positions" is present or absent (an error object has none of them)
JSONObjects ==
  { a @@ b @@ c :
      a \in {<<>>} \cup {[account |-> id] : id \in AccountIDs},
      b \in {<<>>} \cup {[balances |-> m] : m \in {{}, {"RUB"}}},
      c \in {<<>>} \cup {[positions |-> ps] : ps \in ReplyPositions} }

\* a body is a JSON object, or bytes json.Unmarshal cannot decode
Bodies == {[decodable |-> FALSE, object |-> <<>>]}
            \cup {[decodable |-> TRUE, object |-> o] : o \in JSONObjects}

\* what the transport may do with the request
Replies ==
  {[kind |-> "doError"]}
    \cup {[kind |-> "readError", status |-> st] : st \in Statuses}
    \cup {[kind |-> "body", status |-> st, body |-> b] : st \in Statuses, b \in Bodies}

\* lines 327-328: json.Unmarshal into a PortfolioInfo: a key the object does
\* not hold leaves the zero value of its field
Unmarshal(object) ==
  [Account |-> [AccountID |-> IF "account" \in DOMAIN object
                              THEN object.account ELSE ""],
   Balances |-> IF "balances" \in DOMAIN object THEN object.balances ELSE {},
   Positions |-> IF "positions" \in DOMAIN object THEN object.positions ELSE <<>>]

\* lines 311-337: what GetPortfolioInfo returns for a reply; resp.StatusCode
\* is never read
PortfolioInfoOf(r) ==
  IF r.kind = "doError"
  THEN [called |-> TRUE, portfolio |-> NilPortfolio, err |-> "request"]
  ELSE IF r.kind = "readError"
  THEN [called |-> TRUE, portfolio |-> NilPortfolio, err |-> "read"]
  ELSE IF ~r.body.decodable
  THEN [called |-> TRUE, portfolio |-> NilPortfolio, err |-> "parse"]
  ELSE [called |-> TRUE, portfolio |-> Unmarshal(r.body.object), err |-> "nil"]

\* lines 297-338: one call of GetPortfolioInfo
GetPortfolioInfo ==
  /\ ~portfolioResult.called
  /\ \E accessToken \in AccessTokens, r \in Replies :
       /\ reply' = [token |-> accessToken, transport |-> r]
       /\ portfolioResult' = PortfolioInfoOf(r)
  /\ UNCHANGED <<backtest, aside>>

NextPortfolio == GetPortfolioInfo

SpecPortfolio == Init /\ [][NextPortfolio]_vars

\* ----------------------------------------------------- TransaqConnector
\* the lines the server may write: the reply to the connect command, an
\* event, an empty line
Texts == {"connected", "event", ""}

\* line 142: strings.Contains(authResponse, "connected")
IsConnectedReply(message) == message = "connected"

\* lines 86-93: the cases of the select that can be taken. A receive from a
\* channel that is closed and drained yields "" and is taken like any other
\* receive; the timer fires when no other case becomes ready
SelectOutcomes(buffer, closed, stopped) ==
  (IF buffer # <<>>
   THEN {[case |-> "message", message |-> Head(buffer), err |-> "nil"]} ELSE {})
  \cup (IF buffer = <<>> /\ closed
        THEN {[case |-> "closed", message |-> "", err |-> "nil"]} ELSE {})
  \cup (IF stopped
        THEN {[case |-> "stop", message |-> "", err |-> "stopped"]} ELSE {})
  \cup (IF buffer = <<>> /\ ~closed /\ ~stopped
        THEN {[case |-> "timeout", message |-> "", err |-> "timeout"]} ELSE {})

\* a send that puts the line at the head of the buffer
ChanSendFront(buffer, message) == <<message>> \o buffer

\* line 225: t.messages <- message, enabled while the buffer has room
ChanSend(buffer, message) == Append(buffer, message)

\* lines 85-94: GetMessageWithTimeout returns the outcome o
Select(o) ==
  /\ lastGet' = [n |-> lastGet.n + 1, message |-> o.message, err |-> o.err]
  /\ IF o.case = "message"
     THEN /\ messages' = Tail(messages)
          /\ delivered' = Append(delivered, o.message)
     ELSE UNCHANGED <<messages, delivered>>

\* lines 45-62, and main lines 61-65: Connect; main exits when it fails
Connect ==
  /\ callerPc = "new"
  /\ \/ conn' = "open" /\ callerPc' = "connected"
     \/ callerPc' = "exited" /\ UNCHANGED conn
  /\ UNCHANGED <<wire, messages, messagesClosed, stopClosed, readerPc, inHand,
                 lastGet, readLog, delivered>>
  /\ UNCHANGED <<backtest, portfolioCall, fetchVars, quoteVars, liveVars>>

\* the server writes a line to the connection
ServerWrite ==
  /\ conn = "open"
  /\ callerPc # "exited"
  /\ Len(readLog) + Len(wire) < MaxLines
  /\ \E text \in Texts : wire' = Append(wire, text)
  /\ UNCHANGED <<conn, messages, messagesClosed, stopClosed, readerPc, inHand,
                 callerPc, lastGet, readLog, delivered>>
  /\ UNCHANGED <<backtest, portfolioCall, fetchVars, quoteVars, liveVars>>

\* the server closes the connection
ServerClose ==
  /\ conn = "open"
  /\ callerPc # "exited"
  /\ conn' = "closed"
  /\ UNCHANGED <<wire, messages, messagesClosed, stopClosed, readerPc, inHand,
                 callerPc, lastGet, readLog, delivered>>
  /\ UNCHANGED <<backtest, portfolioCall, fetchVars, quoteVars, liveVars>>

\* lines 219-235: StartReading starts the reader goroutine
StartReading ==
  /\ callerPc \in {"connected", "ready"}
  /\ readerPc = "off"
  /\ readerPc' = "scan"
  /\ UNCHANGED <<conn, wire, messages, messagesClosed, stopClosed, inHand,
                 callerPc, lastGet, readLog, delivered>>
  /\ UNCHANGED <<backtest, portfolioCall, fetchVars, quoteVars, liveVars>>

\* lines 223-224: scanner.Scan() returns a line
ReaderScan ==
  /\ readerPc = "scan"
  /\ callerPc # "exited"
  /\ wire # <<>>
  /\ inHand' = Head(wire)
  /\ wire' = Tail(wire)
  /\ readLog' = Append(readLog, Head(wire))
  /\ readerPc' = "send"
  /\ UNCHANGED <<conn, messages, messagesClosed, stopClosed, callerPc, lastGet,
                 delivered>>
  /\ UNCHANGED <<backtest, portfolioCall, fetchVars, quoteVars, liveVars>>

\* line 225: the send on t.messages
ReaderSend ==
  /\ readerPc = "send"
  /\ callerPc # "exited"
  /\ Len(messages) < ChanCap
  /\ messages' = ChanSend(messages, inHand)
  /\ readerPc' = "scan"
  /\ UNCHANGED <<conn, wire, messagesClosed, stopClosed, inHand, callerPc,
                 lastGet, readLog, delivered>>
  /\ UNCHANGED <<backtest, portfolioCall, fetchVars, quoteVars, liveVars>>

\* lines 221 and 223-234: scanner.Scan() returns false on a closed
\* connection; the goroutine ends and the deferred close(t.messages) runs
ReaderEnd ==
  /\ readerPc = "scan"
  /\ callerPc # "exited"
  /\ conn = "closed"
  /\ readerPc' = "done"
  /\ messagesClosed' = TRUE
  /\ UNCHANGED <<conn, wire, messages, stopClosed, inHand, callerPc, lastGet,
                 readLog, delivered>>
  /\ UNCHANGED <<backtest, portfolioCall, fetchVars, quoteVars, liveVars>>

\* lines 128-132, and main lines 68-71: Authorize sends the connect command;
\* main exits when the write fails
AuthorizeSend ==
  /\ callerPc = "connected"
  /\ callerPc' = IF conn = "open" THEN "authwait" ELSE "exited"
  /\ UNCHANGED <<conn, wire, messages, messagesClosed, stopClosed, readerPc, inHand,
                 lastGet, readLog, delivered>>
  /\ UNCHANGED <<backtest, portfolioCall, fetchVars, quoteVars, liveVars>>

\* lines 135-150, and main lines 68-71: Authorize waits for the reply; main
\* exits unless Authorize returns nil
AuthorizeReceive ==
  /\ callerPc = "authwait"
  /\ \E o \in SelectOutcomes(messages, messagesClosed, stopClosed) :
       /\ Select(o)
       /\ callerPc' = IF o.err = "nil" /\ IsConnectedReply(o.message)
                      THEN "ready" ELSE "exited"
  /\ UNCHANGED <<conn, wire, messagesClosed, stopClosed, readerPc, inHand, readLog>>
  /\ UNCHANGED <<backtest, portfolioCall, fetchVars, quoteVars, liveVars>>

\* main lines 124-132: the robot's loop asks for the next message
GetMessageWithTimeout ==
  /\ callerPc = "ready"
  /\ readerPc # "off"
  /\ lastGet.n < MaxGets
  /\ \E o \in SelectOutcomes(messages, messagesClosed, stopClosed) : Select(o)
  /\ UNCHANGED <<conn, wire, messagesClosed, stopClosed, readerPc, inHand, callerPc,
                 readLog>>
  /\ UNCHANGED <<backtest, portfolioCall, fetchVars, quoteVars, liveVars>>

\* lines 119-125: Close
Close ==
  /\ callerPc \in {"connected", "ready"}
  /\ ~stopClosed
  /\ stopClosed' = TRUE
  /\ conn' = "closed"
  /\ UNCHANGED <<wire, messages, messagesClosed, readerPc, inHand, callerPc,
                 lastGet, readLog, delivered>>
  /\ UNCHANGED <<backtest, portfolioCall, fetchVars, quoteVars, liveVars>>

NextConnector ==
  \/ Connect
  \/ ServerWrite
  \/ ServerClose
  \/ StartReading
  \/ ReaderScan
  \/ ReaderSend
  \/ ReaderEnd
  \/ AuthorizeSend
  \/ AuthorizeReceive
  \/ GetMessageWithTimeout
  \/ Close

SpecConnector == Init /\ [][NextConnector]_vars

\* ------------------------------------------------------ api.FetchMarketData
\* ApiResponse.Status as FetchMarketData's comparison sees it.  "" is the
\* zero value a response keeps when the body does not decode.
ApiStatuses == {"success", "error", ""}

\* lines 194-200: the channel is made with capacity len(urls) and one
\* goroutine is started per URL; the collecting loop follows.
FetchMarketData ==
  /\ fetchPc = "idle"
  /\ \E n \in 0..MaxUrls :
       /\ urls' = n
       /\ requestPc' = [g \in 1..n |-> "run"]
  /\ ch' = <<>>
  /\ results' = <<>>
  /\ fetchPc' = "collect"
  /\ UNCHANGED <<fetchResult, backtest, portfolioCall, connectorVars, quoteVars, liveVars>>

\* asyncApiRequest, lines 165-169: http.Get fails; the goroutine logs and
\* returns, nothing is sent on ch.
RequestFails(g) ==
  /\ requestPc[g] = "run"
  /\ requestPc' = [requestPc EXCEPT ![g] = "gone"]
  /\ UNCHANGED <<fetchPc, urls, ch, results, fetchResult,
                 backtest, portfolioCall, connectorVars, quoteVars, liveVars>>

\* asyncApiRequest, lines 170-177: the request was answered; the result,
\* decoded or not, is sent.  The send waits while the buffer is full.
RequestSends(g) ==
  /\ requestPc[g] = "run"
  /\ Len(ch) < urls
  /\ \E status \in ApiStatuses : ch' = Append(ch, status)
  /\ requestPc' = [requestPc EXCEPT ![g] = "sent"]
  /\ UNCHANGED <<fetchPc, urls, results, fetchResult,
                 backtest, portfolioCall, connectorVars, quoteVars, liveVars>>

\* lines 203-209: one turn of "for range urls": receive, return the error on
\* a status other than "success", otherwise append.
Collect ==
  /\ fetchPc = "collect"
  /\ Len(results) < urls
  /\ ch # <<>>
  /\ ch' = Tail(ch)
  /\ IF Head(ch) # "success"
       THEN /\ fetchPc' = "returned"
            /\ fetchResult' = [returned |-> TRUE, results |-> <<>>, err |-> "error"]
            /\ UNCHANGED results
       ELSE /\ results' = Append(results, Head(ch))
            /\ UNCHANGED <<fetchPc, fetchResult>>
  /\ UNCHANGED <<urls, requestPc, backtest, portfolioCall, connectorVars, quoteVars, liveVars>>

\* line 212: the loop has made len(urls) turns.
FetchReturn ==
  /\ fetchPc = "collect"
  /\ Len(results) = urls
  /\ fetchPc' = "returned"
  /\ fetchResult' = [returned |-> TRUE, results |-> results, err |-> "nil"]
  /\ UNCHANGED <<urls, requestPc, ch, results, backtest, portfolioCall,
                 connectorVars, quoteVars, liveVars>>

NextFetch ==
  \/ FetchMarketData
  \/ \E g \in 1..urls : RequestFails(g)
  \/ \E g \in 1..urls : RequestSends(g)
  \/ Collect
  \/ FetchReturn

SpecFetch == Init /\ [][NextFetch]_vars

\* The Go scheduler runs every goroutine that can take a step.
LiveSpecFetch == SpecFetch /\ WF_vars(NextFetch)

\* ------------------------------------- data.UpdateQuotes, GetQuoteHistory
\* Quote: the fields the two functions read.  Price and Volume are sampled
\* from numbers on both sides of the two checks; a Price of NaN is outside
\* the sample.
Quotes ==
  [Symbol : Symbols, TradingSession : Sessions, Price : {0, 1}, Volume : {0, 1}]

\* lines 65, 73: the quote is ignored.
Rejected(quote) == quote.Price <= 0 \/ quote.Volume <= 0

\* ring.New(n): n slots holding nil (NoQuote here), the pointer at one of them
RingNew(n) == [made |-> TRUE, slots |-> [j \in 1..n |-> NoQuote], at |-> 1]

\* lines 109-112: r.Value = quote; r = r.Next()
RingPut(r, quote) ==
  [r EXCEPT !.slots[r.at] = quote, !.at = (r.at % Len(r.slots)) + 1]

\* r.Do with the function of lines 136-140: the values from the pointer on,
\* once around, those that are a Quote
RingDoFromFirst(r) == SelectSeq(r.slots, LAMBDA v : v # NoQuote)

RingDo(r) ==
  LET n == Len(r.slots)
      around == [j \in 1..n |-> r.slots[((r.at + j - 2) % n) + 1]]
  IN  SelectSeq(around, LAMBDA v : v # NoQuote)

\* sync.RWMutex: Lock waits for the writer and the readers, RLock for the
\* writer.
CanLock(mutex) == ~mutex.writer /\ mutex.readers = 0
CanRLockAlways(mutex) == TRUE

CanRLock(mutex) == ~mutex.writer

\* lines 59-80: the call and its two checks, made before the lock is taken.
UpdateQuotes ==
  /\ updaterPc = "idle"
  /\ updates < MaxUpdates
  /\ updates' = updates + 1
  /\ \E quote \in Quotes :
       /\ newQuote' = quote
       /\ updaterPc' = IF Rejected(quote) THEN "idle" ELSE "lock"
  /\ UNCHANGED <<CurrentQuotes, QuotesHistory, quotesMutex, getterPc, getSymbol,
                 quotesRead, accepted, backtest, portfolioCall, connectorVars,
                 fetchVars, liveVars>>

\* line 83: quotesMutex.Lock()
QuotesLock ==
  /\ updaterPc = "lock"
  /\ CanLock(quotesMutex)
  /\ quotesMutex' = [quotesMutex EXCEPT !.writer = TRUE]
  /\ updaterPc' = "current"
  /\ UNCHANGED <<CurrentQuotes, QuotesHistory, newQuote, updates, getterPc, getSymbol,
                 quotesRead, accepted, backtest, portfolioCall, connectorVars,
                 fetchVars, liveVars>>

\* lines 87-92: CurrentQuotes[tradingSession][symbol] = *newQuote
StoreCurrent ==
  /\ updaterPc = "current"
  /\ CurrentQuotes' =
       [CurrentQuotes EXCEPT ![newQuote.TradingSession][newQuote.Symbol] = newQuote]
  /\ updaterPc' = "history"
  /\ UNCHANGED <<QuotesHistory, quotesMutex, newQuote, updates, getterPc, getSymbol,
                 quotesRead, accepted, backtest, portfolioCall, connectorVars,
                 fetchVars, liveVars>>

\* lines 95-112: the ring of the symbol is made when absent; the quote is
\* put at the pointer and the pointer moves on.
StoreHistory ==
  /\ updaterPc = "history"
  /\ LET symbol == newQuote.Symbol
         history == IF QuotesHistory[symbol].made THEN QuotesHistory[symbol]
                    ELSE RingNew(maxHistorySize)
     IN  /\ QuotesHistory' = [QuotesHistory EXCEPT ![symbol] = RingPut(history, newQuote)]
         /\ accepted' = [accepted EXCEPT ![symbol] = Append(@, newQuote)]
  /\ updaterPc' = "unlock"
  /\ UNCHANGED <<CurrentQuotes, quotesMutex, newQuote, updates, getterPc, getSymbol,
                 quotesRead, backtest, portfolioCall, connectorVars, fetchVars, liveVars>>

\* line 84, run at the return of line 121: quotesMutex.Unlock()
QuotesUnlock ==
  /\ updaterPc = "unlock"
  /\ quotesMutex' = [quotesMutex EXCEPT !.writer = FALSE]
  /\ updaterPc' = "idle"
  /\ UNCHANGED <<CurrentQuotes, QuotesHistory, newQuote, updates, getterPc, getSymbol,
                 quotesRead, accepted, backtest, portfolioCall, connectorVars,
                 fetchVars, liveVars>>

\* lines 125-126: the call and quotesMutex.RLock()
GetQuoteHistory ==
  /\ getterPc = "idle"
  /\ CanRLock(quotesMutex)
  /\ \E symbol \in Symbols : getSymbol' = symbol
  /\ quotesMutex' = [quotesMutex EXCEPT !.readers = @ + 1]
  /\ getterPc' = "locked"
  /\ UNCHANGED <<CurrentQuotes, QuotesHistory, updaterPc, newQuote, updates,
                 quotesRead, accepted, backtest, portfolioCall, connectorVars,
                 fetchVars, liveVars>>

\* lines 129-142: no ring for the symbol: nil and an error; otherwise the
\* values Do visits.
HistoryDo ==
  /\ getterPc = "locked"
  /\ quotesRead' =
       IF ~QuotesHistory[getSymbol].made
         THEN [returned |-> TRUE, quotes |-> <<>>, err |-> "no history"]
         ELSE [returned |-> TRUE, quotes |-> RingDo(QuotesHistory[getSymbol]),
               err |-> "nil"]
  /\ getterPc' = "read"
  /\ UNCHANGED <<CurrentQuotes, QuotesHistory, quotesMutex, updaterPc, newQuote, updates,
                 getSymbol, accepted, backtest, portfolioCall, connectorVars,
                 fetchVars, liveVars>>

\* line 127, run at the return: quotesMutex.RUnlock()
QuotesRUnlock ==
  /\ getterPc = "read"
  /\ quotesMutex' = [quotesMutex EXCEPT !.readers = @ - 1]
  /\ getterPc' = "idle"
  /\ UNCHANGED <<CurrentQuotes, QuotesHistory, updaterPc, newQuote, updates,
                 getSymbol, quotesRead, accepted, backtest, portfolioCall,
                 connectorVars, fetchVars, liveVars>>

NextQuotes ==
  \/ UpdateQuotes
  \/ QuotesLock
  \/ StoreCurrent
  \/ StoreHistory
  \/ QuotesUnlock
  \/ GetQuoteHistory
  \/ HistoryDo
  \/ QuotesRUnlock

SpecQuotes == Init /\ [][NextQuotes]_vars

\* ----------------------------------------------- main: the robot's loop
\* What the loop reads of the portfolio GetPortfolioInfo returned:
\* Balances["RUB"].Available and, of every position, Symbol and Quantity.
LivePositions == [Symbol : Symbols, Quantity : {0, 1}]
LivePositionLists ==
  UNION {[1..n -> LivePositions] : n \in 0..MaxLivePositions}
LivePortfolios == [Available : {0, 2}, Positions : LivePositionLists]

\* What the loop reads of a signal.  "hold" is a side that is neither of the
\* two the loop sends orders for.
LiveSignals == [Symbol : Symbols, Side : Sides, Price : {1}]

\* line 225
InsufficientFunds(portfolio, signal) ==
  signal.Side = "buy" /\ portfolio.Available < signal.Price

\* lines 232-238
hasOpenPositionOnBuy(positions, signal) ==
  /\ signal.Side = "buy"
  /\ \E p \in 1..Len(positions) :
       positions[p].Symbol = signal.Symbol /\ positions[p].Quantity > 0

hasOpenPosition(positions, signal) ==
  \E p \in 1..Len(positions) :
    positions[p].Symbol = signal.Symbol /\ positions[p].Quantity > 0

\* lines 247-254 and 261-268: the request CreateOrder is called with
OrderRequest(signal) ==
  [Symbol |-> signal.Symbol, Side |-> signal.Side, Quantity |-> 1,
   OrderType |-> "market"]

\* lines 125-217: an iteration that ends in one of the "continue"s before
\* the range loop: no message in time, no quote, no history, no portfolio,
\* no signals.
LiveContinue ==
  /\ livePc = "idle"
  /\ iteration < MaxIterations
  /\ iteration' = iteration + 1
  /\ UNCHANGED <<livePc, livePortfolio, liveSignals, liveK, liveSignal, orders,
                 backtest, portfolioCall, connectorVars, fetchVars, quoteVars>>

\* lines 204-218: the portfolio and the signals of the iteration
LiveFetch ==
  /\ livePc = "idle"
  /\ iteration < MaxIterations
  /\ iteration' = iteration + 1
  /\ \E portfolio \in LivePortfolios : livePortfolio' = portfolio
  /\ \E n \in 0..MaxSignals : liveSignals' = n
  /\ liveK' = 0
  /\ livePc' = "signals"
  /\ UNCHANGED <<liveSignal, orders,
                 backtest, portfolioCall, connectorVars, fetchVars, quoteVars>>

\* lines 221-275: one turn of the range loop over signals.  A failure of
\* CreateOrder is only logged.
LiveSignal ==
  /\ livePc = "signals"
  /\ liveK < liveSignals
  /\ liveK' = liveK + 1
  /\ \E signal \in LiveSignals :
       /\ liveSignal' = signal
       /\ orders' =
            IF InsufficientFunds(livePortfolio, signal) THEN orders
            ELSE IF hasOpenPosition(livePortfolio.Positions, signal) THEN orders
            ELSE IF signal.Side = "buy" THEN Append(orders, OrderRequest(signal))
            ELSE IF signal.Side = "sell" THEN Append(orders, OrderRequest(signal))
            ELSE orders
  /\ UNCHANGED <<livePc, iteration, livePortfolio, liveSignals,
                 backtest, portfolioCall, connectorVars, fetchVars, quoteVars>>

\* line 276: the range loop is over and the next iteration follows; the
\* variables declared in the body of the loop end with the iteration.
LiveNext ==
  /\ livePc = "signals"
  /\ liveK = liveSignals
  /\ livePc' = "idle"
  /\ livePortfolio' = NoLivePortfolio
  /\ liveSignals' = 0
  /\ liveK' = 0
  /\ liveSignal' = NoSignal
  /\ orders' = <<>>
  /\ UNCHANGED <<iteration,
                 backtest, portfolioCall, connectorVars, fetchVars, quoteVars>>

NextLive ==
  \/ LiveContinue
  \/ LiveFetch
  \/ LiveSignal
  \/ LiveNext

SpecLive == Init /\ [][NextLive]_vars

\* ------------------------------------------- a strategy that writes
\* line 351: the third argument of GetSignals is the pointer portfolio, the
\* ledger of the replay loop itself and no copy of it
PortfolioArg(available, positions) ==
  [Available |-> available, Positions |-> positions]

\* what an implementation of Strategy may store through that pointer:
\* portfolio.Balances["RUB"] = order.Balance{}, or portfolio.Positions = nil
StrategyWrites(portfolio) ==
  { [portfolio EXCEPT !.Available = 0],
    [portfolio EXCEPT !.Positions = <<>>] }

\* lines 347-364 with such a strategy: after the call the ledger is what the
\* strategy left behind the pointer
GetSignalsWriting ==
  /\ pc = "loop"
  /\ i < Len(historyDf)
  /\ strategy.kind = "mock"
  /\ \E r \in GetSignalsOutcomes(strategy, historyDf, i) :
       /\ r.err = "nil"
       /\ call' = [bar |-> i, history |-> Len(HistoryArg(historyDf, i)), err |-> "nil"]
       /\ IF r.n = 0
          THEN /\ i' = i + 1
               /\ UNCHANGED <<pc, nsignals, k>>
          ELSE /\ pc' = "signals"
               /\ nsignals' = r.n
               /\ k' = 0
               /\ UNCHANGED i
  /\ \E p \in StrategyWrites(PortfolioArg(Available, Positions)) :
       /\ Available' = p.Available
       /\ Positions' = p.Positions
  /\ rangeSignal' = NoSignal
  /\ UNCHANGED <<params, portfolioCall, aside, frame, totalTrades, profitableTrades, unprofitableTrades,
                 totalProfit, tradeLog, trackers, result, availableBeforeFill>>

NextAnyStrategy ==
  \/ Next
  \/ GetSignalsWriting

SpecAnyStrategy == Init /\ [][NextAnyStrategy]_vars

TypeOK ==
  /\ pc \in {"start", "loop", "signals", "done"}
  /\ Available \in Int
  /\ totalTrades = Len(tradeLog)

\* ------------------------------------------------------------------ claims
Last(seq) == seq[Len(seq)]
Filled == Len(tradeLog') = Len(tradeLog) + 1
BuyFilled == Filled /\ Last(tradeLog').Side = "buy"
SellFilled == Filled /\ Last(tradeLog').Side = "sell"
HasReport == result.returned /\ result.report
Loaded == pc # "start" /\ ~(result.returned /\ result.err = "load")

\* C1: the RUB Available balance is >= 0 after every buy fill and every sell
\* fill, whatever the initial capital and the signals of the strategy.
C1_NoNegativeCash == totalTrades > 0 => Available >= 0

\* C2: the history handed to GetSignals at step i holds no row of index >= i,
\* that is, it has at most i rows.
C2_NoLookAhead == call # NoCall => call.history <= call.bar

\* C3: a buy at P1 of Q lots followed, with no fill in between, by the sell at
\* P2 of the position that buy opened leaves
\* Available = (Available before the buy) - P1*Q + P2*Q.
C3_RoundTripCash ==
  [][(/\ SellFilled
      /\ Len(tradeLog) > 0
      /\ Last(tradeLog).Side = "buy"
      /\ Len(Positions) > 0
      /\ Positions' = SubSeq(Positions, 1, Len(Positions) - 1))
     => Available' = availableBeforeFill
                       - Last(Positions).AveragePrice * Last(Positions).Quantity
                       + Last(tradeLog').ClosePrice * Last(Positions).Quantity]_vars

\* C3 witness: a run of one buy and its sell at another price, and the cash
\* after it
C3_Witness ==
  /\ Len(tradeLog) = 2
  /\ tradeLog[1].Side = "buy"
  /\ tradeLog[2].Side = "sell"
  /\ tradeLog[2].ClosePrice # tradeLog[1].OpenPrice
  /\ Available = initialCapital + tradeLog[2].Profit
  /\ Available # initialCapital

\* C4: from one step of the run to the next, maxEquity never decreases and
\* maxDrawdown never decreases.
C4_TrackersMonotone ==
  [][/\ maxEquity' >= maxEquity
     /\ (maxDrawdown' = maxDrawdown \/ FGreater(maxDrawdown', maxDrawdown))]_vars

\* C4 witness: both trackers have moved and the balance is below the peak
C4_Witness ==
  /\ pc # "start"
  /\ maxEquity > initialCapital
  /\ FGreater(maxDrawdown, FZero)
  /\ Available < maxEquity

\* C5: a sell fill happens only when a position of the signal's symbol with
\* Quantity > 0 is open; it removes the first such position of the list and
\* leaves the others as they are, in their order.
C5_SellClosesFirstMatch ==
  [][SellFilled =>
       \E idx \in 1..Len(Positions) :
         /\ Positions[idx].Symbol = Last(tradeLog').Symbol
         /\ Positions[idx].Quantity > 0
         /\ \A j \in 1..(idx - 1) :
              ~(Positions[j].Symbol = Last(tradeLog').Symbol /\ Positions[j].Quantity > 0)
         /\ Len(Positions') = Len(Positions) - 1
         /\ \A j \in 1..Len(Positions') :
              Positions'[j] = IF j < idx THEN Positions[j] ELSE Positions[j + 1]]_vars

\* C5 witness: after a sell, a later position of the sold symbol that differs
\* from the closed one is still open
C5_Witness ==
  /\ Len(tradeLog) > 0
  /\ Last(tradeLog).Side = "sell"
  /\ \E j \in 1..Len(Positions) :
       /\ Positions[j].Symbol = Last(tradeLog).Symbol
       /\ Positions[j].Quantity > 0
       /\ Positions[j].AveragePrice # Last(tradeLog).OpenPrice

\* C6: the list of open positions never holds two positions of one symbol.
C6_OnePositionPerSymbol ==
  \A a, b \in 1..Len(Positions) :
    a # b => Positions[a].Symbol # Positions[b].Symbol

\* C7: a run that ends with no fill reports a defined AverageProfit, not NaN.
C7_AverageProfitDefined ==
  (HasReport /\ result.TotalTrades = 0) => ~IsNaN(result.AverageProfit)

\* C8: calculateSharpeRatio returns 0 for a log of fewer than 2 records, and
\* never the result of a division by a zero (or undefined) deviation.
C8_SharpeDefined ==
  HasReport =>
    /\ Len(result.TradingLog) < 2 => result.SharpeRatio.class = "zero"
    /\ result.SharpeRatio.class \in {"zero", "finite"}

\* C9: when GetSignals fails at bar i, no signal of that bar is processed,
\* the ledger and the trackers stay as they are, the loop goes on with bar
\* i+1, and RunBacktest does not return the error.
C9_StrategyErrorSkipsBar ==
  /\ [][(call' # call /\ call'.err # "nil")
        => /\ call'.bar = i
           /\ i' = i + 1
           /\ pc' = "loop"
           /\ nsignals' = 0
           /\ UNCHANGED <<ledger, trackers, result>>]_vars
  /\ [][i' >= i]_vars
  /\ [](result.returned => result.err \in {"nil", "load"})

\* C9 witness: a run with fills whose last bar failed has returned its report
C9_Witness ==
  /\ HasReport
  /\ call.err # "nil"
  /\ call.bar = Len(historyDf) - 1
  /\ totalTrades > 0

\* C10, as claimed: with fewer history rows than Period, SimpleTrendStrategy
\* makes RunBacktest return an error and no report.
C10_AbortsOnInsufficientData ==
  (/\ result.returned
   /\ strategy.kind = "trend"
   /\ call # NoCall
   /\ Len(historyDf) < strategy.Period)
  => (result.err # "nil" /\ ~result.report)

\* C10, amended: with fewer history rows than Period, every replayed bar is
\* skipped with the error of SimpleTrendStrategy; no signal is processed, no
\* trade is made, and RunBacktest returns a report of zero trades and no error.
C10_SkipsEveryBar ==
  (/\ strategy.kind = "trend"
   /\ Loaded
   /\ Len(historyDf) < strategy.Period)
  => /\ pc # "signals"
     /\ tradeLog = <<>>
     /\ Available = initialCapital
     /\ call # NoCall => call.err # "nil"
     /\ result.returned =>
          /\ result.err = "nil"
          /\ result.report
          /\ result.TotalTrades = 0
          /\ result.TradingLog = <<>>

\* C10 witness: such a run has replayed a bar and returned
C10_Witness ==
  /\ strategy.kind = "trend"
  /\ Len(historyDf) < strategy.Period
  /\ Len(historyDf) > StrategyPeriod
  /\ call.err # "nil"
  /\ result.returned

\* C11: a bar whose timestamp cannot be read aborts the run with an error and
\* is never passed over: a step of the loop that moves past a bar without
\* calling GetSignals on it ends the run with a non-nil error, and GetSignals
\* is called only on a bar whose timestamp parses.
C11_UnreadableBarAborts ==
  [][/\ (pc = "loop" /\ i' = i + 1 /\ call' = call)
          => (pc' = "done" /\ result'.returned /\ result'.err # "nil")
     /\ (pc = "loop" /\ call' # call) => IsDate(timeCol[i + 1])]_vars

\* C12: a history whose timestamps are not strictly ascending (a duplicate or
\* an out-of-order bar) is rejected at load time: the strategy is never called
\* on such a history, and no report is made from it.
StrictlyAscending(col) == \A j \in 1..(Len(col) - 1) : col[j] < col[j + 1]
C12_UnorderedHistoryRejected ==
  ~StrictlyAscending(timeCol) => (call = NoCall /\ ~HasReport)

\* C13: a call of strategy.GetSignals leaves the ledger unchanged: the RUB
\* balance and the open positions are the same before and after the call,
\* whatever the strategy does with the portfolio it is given.
C13_GetSignalsKeepsLedger ==
  [][call' # call => UNCHANGED <<Available, Positions>>]_vars

\* C14: the summary of the report is a function of its trade log:
\* TotalTrades is the number of records, TotalProfit the sum of the records'
\* Profit, ProfitableTrades the number of sell records with Profit > 0, and
\* the Sharpe ratio is what calculateSharpeRatio gives on the Profit values
\* alone.
ProfitsOnly(trades) == [j \in 1..Len(trades) |-> [Profit |-> trades[j].Profit]]
C14_SummaryFromLog ==
  HasReport =>
    /\ result.TotalTrades = Len(result.TradingLog)
    /\ result.TotalProfit = SumSeq(Returns(result.TradingLog))
    /\ result.ProfitableTrades =
         Cardinality({j \in 1..Len(result.TradingLog) :
                        /\ result.TradingLog[j].Side = "sell"
                        /\ result.TradingLog[j].Profit > 0})
    /\ result.SharpeRatio = calculateSharpeRatio(ProfitsOnly(result.TradingLog))

\* C14 witness: a report over a log with a buy, a gain and a loss
C14_Witness ==
  /\ HasReport
  /\ \E a, b, c \in 1..Len(result.TradingLog) :
       /\ result.TradingLog[a].Side = "buy"
       /\ result.TradingLog[b].Side = "sell" /\ result.TradingLog[b].Profit > 0
       /\ result.TradingLog[c].Side = "sell" /\ result.TradingLog[c].Profit < 0

\* C15: the portfolio GetPortfolioInfo returns without an error has a
\* non-empty account ID, at least one balance and at least one position,
\* every position with a non-empty symbol and a non-zero quantity; and
\* whenever it returns an error the portfolio it returns is nil.
Populated(portfolio) ==
  /\ portfolio # NilPortfolio
  /\ portfolio.Account.AccountID # ""
  /\ portfolio.Balances # {}
  /\ Len(portfolio.Positions) > 0
  /\ \A j \in 1..Len(portfolio.Positions) :
       /\ portfolio.Positions[j].Symbol # ""
       /\ portfolio.Positions[j].Quantity # 0
C15_PortfolioPopulated ==
  portfolioResult.called =>
    /\ portfolioResult.err = "nil" => Populated(portfolioResult.portfolio)
    /\ portfolioResult.err # "nil" => portfolioResult.portfolio = NilPortfolio

\* C16: an accepted buy sizes the position to lots =
\* floor((Available * 0.01) / Price) with lots >= 1, debits Price * lots from
\* Available, appends one position (Symbol, Quantity = lots, AveragePrice =
\* Price, OpenDate = the time of the bar) and appends one buy record whose
\* close price, close time and profit are unset.
C16_BuyFillEffect ==
  [][BuyFilled =>
       LET sig == rangeSignal'
           lots == positionSizeLots(Available, sig.Price)
       IN /\ sig.Side = "buy"
          /\ lots >= 1
          /\ Available' = Available - sig.Price * lots
          /\ Positions' = Append(Positions,
                                 [Symbol |-> sig.Symbol, Quantity |-> lots,
                                  AveragePrice |-> sig.Price,
                                  OpenDate |-> currentBarTime(i)])
          /\ tradeLog' = Append(tradeLog,
                                [Symbol |-> sig.Symbol, Side |-> "buy",
                                 OpenPrice |-> sig.Price,
                                 OpenTime |-> currentBarTime(i),
                                 ClosePrice |-> 0, CloseTime |-> ZeroTime,
                                 Profit |-> 0])]_vars

\* C17: a buy signal that cannot pay for one lot (the lots computed are 0, or
\* Available < Price) is rejected without any change: Available, the
\* positions, totalTrades, the profit counters and the trade log stay as they
\* are, no error is returned and the run goes on.
C17_UnaffordableBuyRejected ==
  [][(/\ pc = "signals"
      /\ rangeSignal'.Side = "buy"
      /\ \/ FloorDiv(Available, RiskDivisor * rangeSignal'.Price) = 0
         \/ Available < rangeSignal'.Price)
     => /\ UNCHANGED ledger
        /\ UNCHANGED result
        /\ pc' \in {"signals", "loop"}]_vars

\* C17 witness: after a round trip the balance is positive and covers the
\* price, and the buy just processed was rejected for lots = 0
C17_Witness ==
  /\ rangeSignal.Side = "buy"
  /\ Len(tradeLog) > 0
  /\ Last(tradeLog).Side = "sell"
  /\ Available > 0
  /\ Available >= rangeSignal.Price
  /\ rangeSignal.Price > 0
  /\ positionSizeLots(Available, rangeSignal.Price) = 0

\* C18: an accepted sell closes one position of the signal's symbol, credits
\* Available by signal.Price * position.Quantity, adds profit =
\* (signal.Price - position.AveragePrice) * position.Quantity to totalProfit,
\* and appends exactly one sell record: open price and time from the closed
\* position, close price from the signal, close time from the current bar,
\* and that profit.
C18_SellFillEffect ==
  [][SellFilled =>
       \E idx \in 1..Len(Positions) :
         LET sig == rangeSignal'
             position == Positions[idx]
             profit == (sig.Price - position.AveragePrice) * position.Quantity
         IN /\ sig.Side = "sell"
            /\ position.Symbol = sig.Symbol
            /\ Positions' = RemoveAt(Positions, idx)
            /\ Available' = Available + sig.Price * position.Quantity
            /\ totalProfit' = totalProfit + profit
            /\ tradeLog' = Append(tradeLog,
                                  [Symbol |-> sig.Symbol, Side |-> "sell",
                                   OpenPrice |-> position.AveragePrice,
                                   OpenTime |-> position.OpenDate,
                                   ClosePrice |-> sig.Price,
                                   CloseTime |-> currentBarTime(i),
                                   Profit |-> profit])]_vars

\* C18 witness: a position of two lots bought at 1 was sold at 2, a bar after
\* the buy
C18_Witness ==
  /\ rangeSignal.Side = "sell"
  /\ Len(tradeLog) > 0
  /\ Last(tradeLog).Side = "sell"
  /\ Last(tradeLog).OpenPrice = 1
  /\ Last(tradeLog).ClosePrice = 2
  /\ Last(tradeLog).Profit = 2
  /\ Last(tradeLog).CloseTime > Last(tradeLog).OpenTime

\* C19: a sell signal for which no open position has the signal's symbol and
\* Quantity > 0 changes nothing: Available, the positions, totalTrades,
\* totalProfit, the profitable and unprofitable counters and the trade log
\* stay as they are, and no error is raised.
C19_SellWithoutPositionNoOp ==
  [][(/\ pc = "signals"
      /\ rangeSignal'.Side = "sell"
      /\ \A j \in 1..Len(Positions) :
           Positions[j].Symbol # rangeSignal'.Symbol \/ Positions[j].Quantity <= 0)
     => /\ UNCHANGED ledger
        /\ UNCHANGED result
        /\ pc' \in {"signals", "loop"}]_vars

\* C19 witness: a sell was processed while the only open positions were of
\* another symbol; the latest record is still the buy
C19_Witness ==
  /\ rangeSignal.Side = "sell"
  /\ Len(Positions) > 0
  /\ \A j \in 1..Len(Positions) :
       Positions[j].Symbol # rangeSignal.Symbol /\ Positions[j].Quantity > 0
  /\ Len(tradeLog) = Len(Positions)
  /\ Last(tradeLog).Side = "buy"

\* C20: at every point of the run totalTrades is the number of trade-log
\* records, each step adding at most one record together with one increment;
\* profitableTrades + unprofitableTrades is the number of sell records, and
\* profitableTrades the number of those with Profit > 0; a step that appends
\* a buy record or no record leaves both profit counters unchanged.
SellRecords(trades) == {j \in 1..Len(trades) : trades[j].Side = "sell"}
C20_CountersMatchLog ==
  /\ [](/\ totalTrades = Len(tradeLog)
        /\ profitableTrades + unprofitableTrades = Cardinality(SellRecords(tradeLog))
        /\ profitableTrades =
             Cardinality({j \in SellRecords(tradeLog) : tradeLog[j].Profit > 0}))
  /\ [][/\ Len(tradeLog') \in {Len(tradeLog), Len(tradeLog) + 1}
        /\ SubSeq(tradeLog', 1, Len(tradeLog)) = tradeLog
        /\ (BuyFilled \/ Len(tradeLog') = Len(tradeLog))
             => UNCHANGED <<profitableTrades, unprofitableTrades>>]_vars

\* C20 witness: two buys, a sell with a gain and a sell without one have been
\* booked
C20_Witness ==
  /\ profitableTrades = 1
  /\ unprofitableTrades = 1
  /\ totalTrades = 4
  /\ \E j \in SellRecords(tradeLog) : tradeLog[j].Profit = 0
  /\ \E j \in SellRecords(tradeLog) : tradeLog[j].Profit > 0

\* C21: the drawdown trackers follow the cash balance alone. After every
\* processed signal maxEquity >= Available; maxEquity starts at the initial
\* capital and after each step is the larger of its old value and the new
\* Available; and maxDrawdown is not below the drawdown of the current
\* balance, (maxEquity - Available) / maxEquity * 100 (nothing is recorded
\* while maxEquity is 0). No position enters either value.
MaxOf(a, b) == IF a >= b THEN a ELSE b
C21_TrackersFollowCash ==
  /\ [](Loaded =>
          /\ maxEquity >= Available
          /\ maxEquity >= initialCapital
          /\ IF maxEquity = 0
             THEN maxDrawdown = FZero
             ELSE ~FGreater(Drawdown(maxEquity, Available), maxDrawdown))
  /\ [][IF pc = "start"
        THEN pc' = "loop" => maxEquity' = initialCapital
        ELSE maxEquity' = MaxOf(maxEquity, Available')]_vars

\* C21 witness: one buy fill and nothing else has raised the drawdown; the
\* position it opened is not counted in maxEquity
C21_Witness ==
  /\ Len(tradeLog) = 1
  /\ Last(tradeLog).Side = "buy"
  /\ Len(Positions) = 1
  /\ Positions[1].Quantity > 0
  /\ maxEquity = initialCapital
  /\ Available < maxEquity
  /\ maxDrawdown = Drawdown(maxEquity, Available)
  /\ FGreater(maxDrawdown, FZero)

\* C22 as stated: when maxEquity is 0 the drawdown of the observation is 0,
\* no division by a zero maxEquity being made.
C22_ZeroEquityDrawdownIsZero ==
  (Loaded /\ maxEquity = 0) => Drawdown(maxEquity, Available) = FZero

\* C22: when maxEquity is 0 the division is made and gives NaN, which the
\* comparison of line 447 never takes; maxDrawdown stays 0, and in every
\* state of every run maxDrawdown is a finite number >= 0.
C22_MaxDrawdownStaysDefined ==
  /\ IsFinite(maxDrawdown)
  /\ maxDrawdown.num >= 0
  /\ (Loaded /\ maxEquity = 0) =>
       /\ IsNaN(Drawdown(maxEquity, Available))
       /\ maxDrawdown = FZero

\* C22 witness: a run started with capital 0 has just processed a signal,
\* the observation of lines 441-449 included
C22_Witness ==
  /\ initialCapital = 0
  /\ maxEquity = 0
  /\ Available = 0
  /\ rangeSignal = HoldSignal
  /\ maxDrawdown = FZero

\* C23: the replay loop starts at the warm-up index and moves through the
\* bar indices in ascending order, one at a time: GetSignals is called on the
\* bar the loop stands on and on no bar twice; the signals of a bar are
\* processed in the order of the list, all of them before the next bar; the
\* report is returned only when the index has reached the length of the
\* history; and every run whose history was loaded returns the report, also
\* when the history is shorter than the warm-up period.
C23_ReplayOrderAndTermination ==
  /\ [][/\ pc = "start" => (pc' = "loop" => i' = StrategyPeriod)
        /\ pc # "start" => i' \in {i, i + 1}
        /\ call' # call => (call'.bar = i /\ call'.bar > call.bar /\ pc = "loop")
        /\ pc = "signals" =>
             IF k + 1 < nsignals
             THEN k' = k + 1 /\ i' = i /\ pc' = "signals"
             ELSE i' = i + 1 /\ pc' = "loop"
        /\ (pc = "loop" /\ pc' = "signals") => (k' = 0 /\ i' = i)
        /\ (pc # "start" /\ pc' = "done") =>
             (i >= Len(historyDf) /\ result'.returned /\ result'.report)]_vars
  /\ (pc = "loop") ~> HasReport

\* C23 witness: a report returned after the loop called GetSignals on the
\* last of several replayed bars
C23_Witness ==
  /\ HasReport
  /\ Len(historyDf) > StrategyPeriod + 1
  /\ i = Len(historyDf)
  /\ call.bar = Len(historyDf) - 1

\* C25: after the load and after every processed signal, Available plus the
\* sum over the open positions of AveragePrice * Quantity equals
\* initialCapital + totalProfit, and totalProfit equals the sum of Profit
\* over the sell records of the trade log.
RECURSIVE PositionsCost(_)
PositionsCost(positions) ==
  IF positions = <<>> THEN 0
  ELSE Last(positions).AveragePrice * Last(positions).Quantity
         + PositionsCost(SubSeq(positions, 1, Len(positions) - 1))
RECURSIVE SellProfit(_)
SellProfit(trades) ==
  IF trades = <<>> THEN 0
  ELSE (IF Last(trades).Side = "sell" THEN Last(trades).Profit ELSE 0)
         + SellProfit(SubSeq(trades, 1, Len(trades) - 1))
C26_NilErrorMeansReceived ==
  [][lastGet'.n # lastGet.n =>
       /\ lastGet'.err = "nil" =>
            /\ messages # <<>>
            /\ lastGet'.message = Head(messages)
            /\ Len(delivered') <= Len(readLog)
       /\ ((messagesClosed \/ stopClosed) /\ messages = <<>>) =>
            lastGet'.err # "nil"]_vars

\* C27: in the order Connect, Authorize, StartReading, Authorize succeeds
\* when the server answers the connect command with "connected": whenever
\* Authorize has returned while the reader goroutine was not started and that
\* reply is the next line on the connection, Authorize returned nil.
C27_AuthorizeBeforeReadingSucceeds ==
  (/\ lastGet.n = 1
   /\ readerPc = "off"
   /\ wire # <<>>
   /\ IsConnectedReply(Head(wire)))
  => callerPc = "ready"

\* C30: the lines the reader goroutine has read are, in the order read, the
\* lines already received from the channel, then the lines in its buffer,
\* then the line the reader holds: none is dropped, duplicated or reordered;
\* the buffer never holds more than its capacity, and while it is full the
\* reader keeps its line and reads no further.
C30_MessagesInOrderOnce ==
  /\ [](/\ readLog = delivered \o messages
                       \o (IF readerPc = "send" THEN <<inHand>> ELSE <<>>)
        /\ Len(messages) <= ChanCap)
  /\ [][(readerPc = "send" /\ Len(messages) = ChanCap) =>
          (readerPc' = "send" /\ inHand' = inHand /\ readLog' = readLog)]_vars

\* C30 witness: a line has been received, the buffer is full and the reader
\* holds a further line
C30_Witness ==
  /\ Len(delivered) > 0
  /\ Len(messages) = ChanCap
  /\ readerPc = "send"
  /\ \E a, b \in 1..Len(readLog) : readLog[a] # readLog[b]


\* C28: FetchMarketData eventually returns whatever the requests do: the
\* collecting loop does not wait forever, and no goroutine ever waits on a
\* full channel.
C28_FetchReturns ==
  /\ [](\A g \in 1..urls : requestPc[g] = "run" => Len(ch) < urls)
  /\ (fetchPc = "collect") ~> (fetchPc = "returned")

\* C28, the part that holds: a request never waits on a full channel, and a
\* call in which every request is answered returns.
C28_SendersNeverBlock ==
  /\ [](\A g \in 1..urls : requestPc[g] = "run" => Len(ch) < urls)
  /\ (fetchPc = "collect" /\ [](\A g \in 1..urls : requestPc[g] # "gone"))
        ~> (fetchPc = "returned")

\* C29: GetQuoteHistory(symbol) returns the last min(n, maxHistorySize)
\* accepted quotes of the symbol (those with Price > 0 and Volume > 0, n of
\* them so far), oldest first; a rejected quote changes neither CurrentQuotes
\* nor the history; and what a reader holding the read lock sees in
\* CurrentQuotes for the symbol has been put into the history.
LastN(seq, n) ==
  IF Len(seq) <= n THEN seq ELSE SubSeq(seq, Len(seq) - n + 1, Len(seq))
C29_HistoryIsLastAccepted ==
  /\ [](getterPc = "read" =>
          /\ quotesRead.quotes = LastN(accepted[getSymbol], maxHistorySize)
          /\ \A session \in Sessions :
               CurrentQuotes[session][getSymbol] # NoQuote =>
                 \E j \in 1..Len(accepted[getSymbol]) :
                   accepted[getSymbol][j] = CurrentQuotes[session][getSymbol])
  /\ [](\A symbol \in Symbols : \A j \in 1..Len(accepted[symbol]) :
          /\ accepted[symbol][j].Symbol = symbol
          /\ accepted[symbol][j].Price > 0
          /\ accepted[symbol][j].Volume > 0)
  /\ [][updates' # updates =>
          IF newQuote'.Price > 0 /\ newQuote'.Volume > 0
            THEN updaterPc' = "lock"
            ELSE updaterPc' = "idle" /\ UNCHANGED <<CurrentQuotes, QuotesHistory>>]_vars
  /\ [][(updaterPc = "history" /\ updaterPc' = "unlock") <=> accepted' # accepted]_vars
C29_Witness ==
  /\ getterPc = "read"
  /\ Len(accepted[getSymbol]) > maxHistorySize
  /\ Len(quotesRead.quotes) = maxHistorySize
  /\ quotesRead.quotes[1] # quotesRead.quotes[maxHistorySize]
  /\ updaterPc = "lock"
  /\ \E session \in Sessions : CurrentQuotes[session][getSymbol] # NoQuote

\* C24: in the robot's loop CreateOrder is never called for a signal whose
\* symbol has a position with Quantity > 0 in the portfolio fetched in the
\* iteration, whether the signal is a buy or a sell; the order that is sent
\* is the signal's.
Held(symbol) ==
  \E p \in 1..Len(livePortfolio.Positions) :
    /\ livePortfolio.Positions[p].Symbol = symbol
    /\ livePortfolio.Positions[p].Quantity > 0
C24_NoOrderOnHeldSymbol ==
  [][ /\ (orders' # orders /\ orders' # <<>>) =>
           (/\ liveK' = liveK + 1
            /\ livePortfolio' = livePortfolio
            /\ orders' = Append(orders, OrderRequest(liveSignal'))
            /\ ~Held(liveSignal'.Symbol))
      /\ (liveK' = liveK + 1 /\ Held(liveSignal'.Symbol)) => (orders' = orders)
      /\ (livePc = "signals" /\ livePc' = "signals") =>
           (livePortfolio' = livePortfolio) ]_vars
C24_Witness ==
  /\ Len(orders) = 1
  /\ orders[1].Side = "sell"
  /\ liveK = 2
  /\ liveSignal.Side = "sell"
  /\ liveSignal.Symbol # orders[1].Symbol
  /\ Held(liveSignal.Symbol)
====
